---- MODULE Spec2Model ----
(***************************************************************************)
(* Control link of Donutras/scrov: the laptop sender (src/Sfinx.py) and    *)
(* the Raspberry Pi receiver (src/Defender.py), NDJSON over one TCP        *)
(* connection.                                                             *)
(*                                                                         *)
(* Time is counted in ticks, TicksPerSec ticks to the second.  A byte      *)
(* stream is a sequence of wire units: single bytes, and opaque fragments  *)
(* that stand for the two halves of the text json.dumps gives for one      *)
(* JSON object (such a text holds no newline and no outer whitespace).     *)
(***************************************************************************)
EXTENDS Integers, Sequences, FiniteSets, TLC

VARIABLES
    clock,      \* time.perf_counter() of the laptop, in ticks
    spc,        \* sender: position in run()
    sock,       \* sender: ControlClient.sock (0 = None, else connection id)
    seq,        \* sender: ControlClient.seq
    last_send,  \* sender: run() local
    last_any,   \* sender: run() local
    sent,       \* history: what run() handed to send_json_line, in order
    net,        \* the TCP connections, by id
    lsock,      \* receiver: the listening socket is bound and listening
    rpc,        \* receiver: position in serve()/handle_client()/recv_lines()
    conn,       \* receiver: connection being served (0 = none)
    buf,        \* receiver: recv_lines' buf
    out,        \* history: what the loop of handle_client did on the
                \* served connection, line by line
    rx,         \* history: every unit recv returned on the served connection
    frames,     \* history: every line recv_lines yielded on it
    joined,     \* history: buf held bytes when the last chunk was added to it
    tail,       \* history: what buf held when the last connection ended
    quiet,      \* history: ticks since the last frame on the served connection
    accepts,    \* history: how often each connection id was accepted
    budget,     \* lines the foreign clients may still write
    ack,        \* receiver: the ack it is about to write (<<>> = none)
    opts        \* the command lines: enable_control, show_heartbeats, send_ack

vars == <<clock, spc, sock, seq, last_send, last_any, sent, net, lsock, rpc,
          conn, buf, out, rx, frames, joined, tail, quiet, accepts, budget,
          ack, opts>>

senderVars == <<clock, spc, sock, seq, last_send, last_any, sent>>
recvVars == <<lsock, rpc, conn, buf, out, rx, frames, joined, tail, quiet, accepts, ack>>

(***************************************************************************)
(* Bounds of the model.                                                    *)
(***************************************************************************)
MaxConns == 2       \* connection ids
MaxLines == 3       \* lines the foreign clients write in all
MaxSends == 3       \* messages the sender hands to sendall
MaxClock == 36      \* perf_counter values explored
TicksPerSec == 60   \* resolution of the clock
ChanCap == 7        \* units a direction of a connection buffers

(***************************************************************************)
(* Program constants.                                                      *)
(***************************************************************************)
POLL_HZ == 60
HEARTBEAT_MS == 500
HALF == 65536               \* 0xFFFFFFFF is HALF * HALF - 1: a seq is held as
                            \* <<high half, low half>>, each in 0 .. HALF - 1
RECV_SIZE == 4096
BACKLOG == 1
NEWLINE == 10               \* b"\n"

Min(a, b) == IF a <= b THEN a ELSE b

(***************************************************************************)
(* Python values, as json.loads produces them.  Numbers are held in        *)
(* thousandths.  Absent marks a key a dict does not have.                  *)
(***************************************************************************)
Absent == [t |-> "absent"]
None == [t |-> "none"]
Num(m) == [t |-> "num", v |-> m]
PyInt(n) == [t |-> "int", v |-> n]
U32(w) == [t |-> "u32", v |-> w]       \* an int held as two halves
Str(s) == [t |-> "str", v |-> s]
List(n) == [t |-> "list", v |-> n]
Dict(r) == [t |-> "dict", v |-> r]      \* r: the <<key, value>> pairs, in order
EmptyMap == <<>>

IsDict(x) == x.t = "dict"

\* bool(x)
Truthy(x) ==
    CASE x.t = "none" -> FALSE
      [] x.t = "num" -> x.v # 0
      [] x.t = "int" -> x.v # 0
      [] x.t = "u32" -> x.v # <<0, 0>>
      [] x.t = "str" -> x.v # ""
      [] x.t = "list" -> x.v > 0
      [] x.t = "dict" -> x.v # <<>>
      [] OTHER -> FALSE

HasKey(d, k) == \E i \in 1 .. Len(d.v) : d.v[i][1] = k

\* d.get(k, default) of a dict d
Get(d, k, default) ==
    IF HasKey(d, k) THEN d.v[CHOOSE i \in 1 .. Len(d.v) : d.v[i][1] = k][2] ELSE default

\* a or {}
OrEmpty(x) == IF Truthy(x) THEN x ELSE Dict(EmptyMap)

(***************************************************************************)
(* Wire units and text.                                                    *)
(***************************************************************************)
\* a unit: kind k, number n (byte value, code point, or which half), and
\* for a fragment the object o whose text it is part of
Byte(b) == [k |-> "byte", n |-> b, o |-> None]
Frag(obj, i) == [k |-> "frag", n |-> i, o |-> obj]
Char(c) == [k |-> "char", n |-> c, o |-> None]
NL == Byte(NEWLINE)

\* json.dumps(obj, ...) as wire units: the text of one JSON object
Dumps(o) == <<Frag(o, 1), Frag(o, 2)>>

\* (json.dumps(obj) + "\n").encode("utf-8")
EncodeLine(o) == Dumps(o) \o <<NL>>

(***************************************************************************)
(* recv_lines: framing and decoding.                                       *)
(***************************************************************************)
\* buf.find(b"\n"), 1-based; 0 when there is none
RECURSIVE FindFrom(_, _)
FindFrom(b, i) ==
    IF i > Len(b) THEN 0
    ELSE IF b[i] = NL THEN i
    ELSE FindFrom(b, i + 1)

\* buf.rfind(b"\n") in its place: the last newline, not the first
RECURSIVE FindLastFrom(_, _)
FindLastFrom(b, i) ==
    IF i = 0 THEN 0
    ELSE IF b[i] = NL THEN i
    ELSE FindLastFrom(b, i - 1)

FindLast(b) == FindLastFrom(b, Len(b))

Find(b) == FindFrom(b, 1)

IsCont(u) == u.k = "byte" /\ u.n >= 128 /\ u.n <= 191
IsLead2(u) == u.k = "byte" /\ u.n >= 194 /\ u.n <= 223

\* bytes.decode("utf-8", errors="replace"): one- and two-byte sequences are
\* decoded, every other byte becomes U+FFFD; a fragment is ASCII text
RECURSIVE DecodeFrom(_, _)
DecodeFrom(b, i) ==
    IF i > Len(b) THEN <<>>
    ELSE IF b[i].k = "frag" THEN <<b[i]>> \o DecodeFrom(b, i + 1)
    ELSE IF b[i].n < 128 THEN <<Char(b[i].n)>> \o DecodeFrom(b, i + 1)
    ELSE IF IsLead2(b[i]) /\ i < Len(b) /\ IsCont(b[i + 1])
        THEN <<Char((b[i].n - 192) * 64 + (b[i + 1].n - 128))>> \o DecodeFrom(b, i + 2)
    ELSE <<Char(65533)>> \o DecodeFrom(b, i + 1)

Decode(b) == DecodeFrom(b, 1)

\* the code points str.strip() removes
Whitespace ==
    (9 .. 13) \cup (28 .. 32) \cup {133, 160, 5760} \cup (8192 .. 8202)
        \cup {8232, 8233, 8239, 8287, 12288}

IsSpace(c) == c.k = "char" /\ c.n \in Whitespace

RECURSIVE LStrip(_)
LStrip(t) == IF t # <<>> /\ IsSpace(Head(t)) THEN LStrip(Tail(t)) ELSE t

RECURSIVE RStrip(_)
RStrip(t) ==
    IF t # <<>> /\ IsSpace(t[Len(t)]) THEN RStrip(SubSeq(t, 1, Len(t) - 1)) ELSE t

\* str.strip()
Strip(t) == RStrip(LStrip(t))

\* line.decode("utf-8", errors="replace").strip()
DecodeLine(b) == Strip(Decode(b))

\* line = buf[:nl], the bytes before the first newline (nl is 1-based here)
TakeLine(b, nl) == SubSeq(b, 1, nl - 1)

\* del buf[:nl+1], the first line and its newline removed
DropLine(b, nl) == SubSeq(b, nl + 1, Len(b))

(***************************************************************************)
(* json.loads on the texts the model's clients can write: the text of one  *)
(* dumped object, a decimal integer, "[]" and "{}".  Every other text they *)
(* can form (no commas, quotes or nesting are in their alphabet) is not    *)
(* JSON and raises JSONDecodeError.                                        *)
(***************************************************************************)
Failed == [ok |-> FALSE, val |-> None]
Parsed(v) == [ok |-> TRUE, val |-> v]

IsDigit(c) == c.k = "char" /\ c.n >= 48 /\ c.n <= 57

RECURSIVE IntOf(_)
IntOf(t) == IF t = <<>> THEN 0 ELSE 10 * IntOf(SubSeq(t, 1, Len(t) - 1)) + (t[Len(t)].n - 48)

IsInt(t) ==
    /\ t # <<>>
    /\ \A i \in 1 .. Len(t) : IsDigit(t[i])
    /\ (Len(t) > 1 => t[1].n # 48)

IsDumped(t) ==
    /\ Len(t) = 2
    /\ t[1].k = "frag" /\ t[2].k = "frag"
    /\ t[1].n = 1 /\ t[2].n = 2
    /\ t[1].o = t[2].o

JsonLoads(t) ==
    IF IsDumped(t) THEN Parsed(t[1].o)
    ELSE IF IsInt(t) THEN Parsed(PyInt(IntOf(t)))
    ELSE IF t = <<Char(91), Char(93)>> THEN Parsed(List(0))
    ELSE IF t = <<Char(123), Char(125)>> THEN Parsed(Dict(EmptyMap))
    ELSE Failed

(***************************************************************************)
(* fmt_float, pressed_buttons, build_line.                                 *)
(***************************************************************************)
\* the strings of the model that float() accepts, in thousandths
FloatStrings == {"0.5"}
FloatOfStr(s) == IF s = "0.5" THEN 500 ELSE 0

\* float(val) succeeds
Floatable(x) == x.t \in {"num", "int"} \/ (x.t = "str" /\ x.v \in FloatStrings)

\* float(val), in thousandths
Float(x) ==
    CASE x.t = "num" -> x.v
      [] x.t = "int" -> 1000 * x.v
      [] OTHER -> FloatOfStr(x.v)

\* f"{float(val):.3f}", or "na" when float() raises
fmt_float(val) ==
    IF Floatable(val)
        THEN [t |-> "fixed3", v |-> Float(val)]
        ELSE Str("na")

\* [k for k, v in btns.items() if v]
RECURSIVE PressedFrom(_, _)
PressedFrom(items, i) ==
    IF i > Len(items) THEN <<>>
    ELSE (IF Truthy(items[i][2]) THEN <<items[i][1]>> ELSE <<>>) \o PressedFrom(items, i + 1)

\* the names pressed_buttons joins, in order; <<>> stands for "-"
pressed_buttons(btns) ==
    IF ~IsDict(btns) THEN <<>>
    ELSE PressedFrom(btns.v, 1)

Raised(e) == [raised |-> TRUE, val |-> Str(e)]
Returned(v) == [raised |-> FALSE, val |-> v]

build_line(msg) ==
    LET axes == OrEmpty(Get(msg, "axes", Dict(EmptyMap)))
        dpad == OrEmpty(Get(msg, "dpad", Dict(EmptyMap)))
    IN  IF ~IsDict(axes) \/ ~IsDict(dpad) THEN Raised("AttributeError")
        ELSE Returned([mtype |-> Get(msg, "type", Str("?")),
                       ts |-> Get(msg, "ts", Str("")),
                       seq |-> Get(msg, "seq", Str("")),
                       lx |-> fmt_float(Get(axes, "lx", None)),
                       ly |-> fmt_float(Get(axes, "ly", None)),
                       rx |-> fmt_float(Get(axes, "rx", None)),
                       ry |-> fmt_float(Get(axes, "ry", None)),
                       lt |-> fmt_float(Get(axes, "lt", None)),
                       rt |-> fmt_float(Get(axes, "rt", None)),
                       dx |-> Get(dpad, "x", PyInt(0)),
                       dy |-> Get(dpad, "y", PyInt(0)),
                       btns |-> pressed_buttons(Get(msg, "buttons", Dict(EmptyMap)))])

(***************************************************************************)
(* Messages.                                                               *)
(***************************************************************************)
\* read_sample: the dict it returns with the left stick pushed, the right
\* trigger pulled, button a pressed and the dpad down
Samples == {
    [axes |-> Dict(<< <<"lx", Num(500)>>, <<"ly", Num(-200)>>, <<"rx", Num(0)>>,
                      <<"ry", Num(0)>>, <<"lt", Num(0)>>, <<"rt", Num(1000)>> >>),
     buttons |-> Dict(<< <<"a", PyInt(1)>>, <<"b", PyInt(0)>> >>),
     dpad |-> Dict(<< <<"x", PyInt(0)>>, <<"y", PyInt(-1)>> >>)] }

\* the sample with sample["seq"] = n
InputMsg(n, s) ==
    Dict(<< <<"type", Str("input")>>, <<"ts", Str("ts")>>, <<"seq", n>>,
            <<"axes", s.axes>>, <<"buttons", s.buttons>>, <<"dpad", s.dpad>>,
            <<"meta", Dict(<< <<"battery", None>>, <<"connected", PyInt(1)>> >>)>> >>)

heartbeat_message(n) ==
    Dict(<< <<"type", Str("heartbeat")>>, <<"ts", Str("ts")>>, <<"seq", n>> >>)

\* an ack that does not carry the seq of the message
AckMsgNoSeq(msg) == Dict(<< <<"type", Str("ack")>>, <<"seq", None>> >>)

\* {"type": "ack", "seq": msg.get("seq")}
AckMsg(msg) == Dict(<< <<"type", Str("ack")>>, <<"seq", Get(msg, "seq", None)>> >>)

(***************************************************************************)
(* The TCP connections.  st is the receiver's end: "unused", "backlog"     *)
(* (handshake done, not accepted yet), "served" (accepted) or "gone"       *)
(* (closed by the receiver, or dropped with its listening socket).  cli is *)
(* the client's end: "none", "open", "closed" (FIN) or "reset" (RST: it    *)
(* was closed with unread data).  An id is free again once both ends are   *)
(* done with the connection; only the sender holds on to a connection the  *)
(* receiver has closed (until a send fails).                               *)
(***************************************************************************)
Ids == 1 .. MaxConns

FreshConn == [st |-> "unused", cli |-> "none", c2s |-> <<>>, s2c |-> <<>>]

Backlogged == {i \in Ids : net[i].st = "backlog"}
Unused == {i \in Ids : net[i].st = "unused"}
Lowest(S) == CHOOSE i \in S : \A j \in S : i <= j

\* a client's connect() reaches the listening socket and its queue has room
CanConnect == lsock /\ Unused # {} /\ Cardinality(Backlogged) < BACKLOG + 1

\* the connections after the client's connect() succeeded
Connected(id) == [net EXCEPT ![id] = [FreshConn EXCEPT !.st = "backlog", !.cli = "open"]]

\* connection c after the receiver's end of it is closed or dropped
Gone(c, id) ==
    IF id = sock /\ c.cli = "open"
        THEN [c EXCEPT !.st = "gone", !.c2s = <<>>]
        ELSE FreshConn

\* the listening socket is closed: what waits in its queue is dropped
DropBacklog(n) ==
    [i \in Ids |-> IF n[i].st = "backlog" THEN Gone(n[i], i) ELSE n[i]]

\* the receiver closes the socket of connection id
ServerClose(n, id) == [n EXCEPT ![id] = Gone(n[id], id)]

\* the accept counts, kept for the ids still in use in n
Kept(n) == [i \in Ids |-> IF n[i].st = "unused" THEN 0 ELSE accepts[i]]

\* a client's close(): an RST when acks are left unread, else a FIN
ClientEnd(c) == [c EXCEPT !.cli = IF c.s2c # <<>> THEN "reset" ELSE "closed", !.s2c = <<>>]

(***************************************************************************)
(* handle_client: what one line yielded by recv_lines makes it do.         *)
(***************************************************************************)
\* what one line made the loop do: ev names the branch, printed tells
\* whether it printed, shown holds what build_line returned (if called)
Event(e, p, l, s) == [ev |-> e, printed |-> p, line |-> l, shown |-> s]

Done(events, acks) == [raised |-> FALSE, events |-> events, acks |-> acks]
Abort == [raised |-> TRUE, events |-> <<>>, acks |-> <<>>]

\* the body of the for loop from "mtype = msg.get(...)" on, for the parsed msg
dispatch(line, msg, show_heartbeats, send_ack) ==
    IF ~IsDict(msg) THEN Abort    \* msg.get: AttributeError
    ELSE LET mtype == Get(msg, "type", None)
         IN  IF mtype = Str("input")
                 THEN LET bl == build_line(msg)
                      IN  IF bl.raised THEN Abort
                          ELSE Done(<<Event("input", TRUE, line, <<bl.val>>)>>,
                                    IF send_ack THEN <<AckMsg(msg)>> ELSE <<>>)
             ELSE IF mtype = Str("heartbeat")
                 THEN Done(<<Event("heartbeat", show_heartbeats, line, <<>>)>>, <<>>)
             ELSE Done(<<Event("unknown", TRUE, line, <<>>)>>, <<>>)

\* the loop body without its "except json.JSONDecodeError" clause
handle_line_uncaught(line, show_heartbeats, send_ack) ==
    IF line = <<>> THEN Done(<<>>, <<>>)
    ELSE LET r == JsonLoads(line)
         IN  IF ~r.ok THEN Abort
             ELSE dispatch(line, r.val, show_heartbeats, send_ack)

\* the body of the for loop for one line, with --show-heartbeats and --ack
handle_line(line, show_heartbeats, send_ack) ==
    IF line = <<>> THEN Done(<<>>, <<>>)
    ELSE LET r == JsonLoads(line)
         IN  IF ~r.ok THEN Done(<<Event("bad json", TRUE, line, <<>>)>>, <<>>)
             ELSE dispatch(line, r.val, show_heartbeats, send_ack)

(***************************************************************************)
(* serve, handle_client and recv_lines of the receiver.                    *)
(***************************************************************************)
\* socket(), bind(), listen(1)
Bind ==
    /\ rpc = "bind"
    /\ lsock' = TRUE
    /\ rpc' = "accept"
    /\ tail' = <<>>
    /\ UNCHANGED <<senderVars, net, conn, buf, out, rx, frames, joined, quiet, accepts, budget, ack, opts>>

\* bind() raises (the port is taken): except Exception
BindFails ==
    /\ rpc = "bind"
    /\ rpc' = "pause"
    /\ tail' = <<>>
    /\ UNCHANGED <<senderVars, net, lsock, conn, buf, out, rx, frames, joined, quiet, accepts, budget, ack, opts>>

\* time.sleep(0.5), then the next round of while True
Pause ==
    /\ rpc = "pause"
    /\ rpc' = "bind"
    /\ tail' = <<>>
    /\ UNCHANGED <<senderVars, net, lsock, conn, buf, out, rx, frames, joined, quiet, accepts, budget, ack, opts>>

\* accept() called from a second thread, whether or not a connection is served
AcceptWhileServing ==
    /\ rpc \in {"accept", "recv"}
    /\ Backlogged # {}
    /\ LET id == Lowest(Backlogged)
       IN  /\ net' = [net EXCEPT ![id].st = "served"]
           /\ conn' = id
           /\ accepts' = [accepts EXCEPT ![id] = @ + 1]
    /\ rpc' = "recv"
    /\ buf' = <<>>
    /\ out' = <<>>
    /\ rx' = <<>>
    /\ frames' = <<>>
    /\ joined' = FALSE
    /\ tail' = <<>>
    /\ quiet' = 0
    /\ UNCHANGED <<senderVars, lsock, budget, ack, opts>>

\* conn, addr = s.accept(); handle_client starts with an empty buf
Accept ==
    /\ rpc = "accept"
    /\ Backlogged # {}
    /\ LET id == Lowest(Backlogged)
       IN  /\ net' = [net EXCEPT ![id].st = "served"]
           /\ conn' = id
           /\ accepts' = [accepts EXCEPT ![id] = @ + 1]
    /\ rpc' = "recv"
    /\ buf' = <<>>
    /\ out' = <<>>
    /\ rx' = <<>>
    /\ frames' = <<>>
    /\ joined' = FALSE
    /\ tail' = <<>>
    /\ quiet' = 0
    /\ UNCHANGED <<senderVars, lsock, budget, ack, opts>>

\* handle_client is left and its socket closed, with the listening socket
\* left open
LeaveListening(to) ==
    /\ net' = ServerClose(net, conn)
    /\ accepts' = Kept(net')
    /\ conn' = 0
    /\ ack' = <<>>
    /\ rpc' = to
    /\ buf' = <<>>
    /\ out' = <<>>
    /\ rx' = <<>>
    /\ frames' = <<>>
    /\ joined' = FALSE
    /\ tail' = buf
    /\ quiet' = 0
    /\ UNCHANGED lsock

\* handle_client is left, its socket closed by "with conn", the listening
\* socket by "with socket": normally (to = "bind") or by an exception that
\* serve catches (to = "pause")
Leave(to) ==
    /\ net' = DropBacklog(ServerClose(net, conn))
    /\ accepts' = Kept(net')
    /\ lsock' = FALSE
    /\ conn' = 0
    /\ ack' = <<>>
    /\ rpc' = to
    /\ buf' = <<>>
    /\ out' = <<>>
    /\ rx' = <<>>
    /\ frames' = <<>>
    /\ joined' = FALSE
    /\ tail' = buf
    /\ quiet' = 0

\* recv with "buf = bytearray(chunk)" in place of buf.extend(chunk)
RecvForgets ==
    /\ rpc = "recv"
    /\ net[conn].c2s # <<>>
    /\ \E n \in 1 .. Min(RECV_SIZE, Len(net[conn].c2s)) :
          LET chunk == SubSeq(net[conn].c2s, 1, n)
          IN  /\ buf' = chunk
              /\ joined' = (buf # <<>>)
              /\ rx' = rx \o chunk
              /\ net' = [net EXCEPT ![conn].c2s = SubSeq(@, n + 1, Len(@))]
    /\ rpc' = "scan"
    /\ UNCHANGED <<senderVars, lsock, conn, out, frames, tail, quiet, accepts, budget, ack, opts>>

\* chunk = sock.recv(4096) returns bytes; buf.extend(chunk)
Recv ==
    /\ rpc = "recv"
    /\ net[conn].c2s # <<>>
    /\ \E n \in 1 .. Min(RECV_SIZE, Len(net[conn].c2s)) :
          LET chunk == SubSeq(net[conn].c2s, 1, n)
          IN  /\ buf' = buf \o chunk
              /\ joined' = (buf # <<>>)
              /\ rx' = rx \o chunk
              /\ net' = [net EXCEPT ![conn].c2s = SubSeq(@, n + 1, Len(@))]
    /\ rpc' = "scan"
    /\ UNCHANGED <<senderVars, lsock, conn, out, frames, tail, quiet, accepts, budget, ack, opts>>

\* recv returns b"" and what is left in buf is yielded as a last line
RecvEofFlushes ==
    /\ rpc = "recv"
    /\ net[conn].c2s = <<>>
    /\ net[conn].cli = "closed"
    /\ IF buf = <<>>
           THEN Leave("bind")
           ELSE /\ frames' = Append(frames, DecodeLine(buf))
                /\ buf' = <<>>
                /\ UNCHANGED <<net, lsock, rpc, conn, out, rx, joined, tail, quiet, accepts, ack>>
    /\ UNCHANGED <<senderVars, budget, opts>>

\* recv returns b"" (the peer sent FIN and all it wrote was read): break
RecvEof ==
    /\ rpc = "recv"
    /\ net[conn].c2s = <<>>
    /\ net[conn].cli = "closed"
    /\ Leave("bind")
    /\ UNCHANGED <<senderVars, budget, opts>>

\* recv raises ConnectionResetError (the peer sent RST)
RecvFails ==
    /\ rpc = "recv"
    /\ net[conn].cli = "reset"
    /\ Leave("pause")
    /\ UNCHANGED <<senderVars, budget, opts>>

\* nl = buf.find(b"\n") finds nothing: back to recv
ScanNone ==
    /\ rpc = "scan"
    /\ Find(buf) = 0
    /\ rpc' = "recv"
    /\ UNCHANGED <<senderVars, net, lsock, conn, buf, out, rx, frames, joined, tail, quiet, accepts, budget, ack, opts>>

\* one line is cut from buf, yielded and handled by the for loop's body
ScanLine ==
    /\ rpc = "scan"
    /\ Find(buf) # 0
    /\ LET nl == Find(buf)
           line == DecodeLine(TakeLine(buf, nl))
           h == handle_line(line, opts.show_heartbeats, opts.send_ack)
       IN  IF h.raised
               THEN Leave("pause")
               ELSE /\ buf' = DropLine(buf, nl)
                    /\ frames' = Append(frames, line)
                    /\ quiet' = 0
                    /\ out' = out \o h.events
                    /\ ack' = h.acks
                    /\ rpc' = IF h.acks # <<>> THEN "ack" ELSE "scan"
                    /\ UNCHANGED <<net, lsock, conn, rx, joined, tail, accepts>>
    /\ UNCHANGED <<senderVars, budget, opts>>

\* conn.sendall(ack line): the bytes are queued toward the client
SendAck ==
    /\ rpc = "ack"
    /\ net[conn].cli = "open"
    /\ Len(net[conn].s2c) + Len(EncodeLine(ack[1])) <= ChanCap
    /\ net' = [net EXCEPT ![conn].s2c = @ \o EncodeLine(ack[1])]
    /\ out' = Append(out, Event("ack", FALSE, Dumps(ack[1]), <<>>))
    /\ ack' = <<>>
    /\ rpc' = "scan"
    /\ UNCHANGED <<senderVars, lsock, conn, buf, rx, frames, joined, tail, quiet, accepts, budget, opts>>

\* conn.sendall(ack line) on a connection the client has closed: the bytes
\* are dropped, or sendall raises and the warning is printed
SendAckLost ==
    /\ rpc = "ack"
    /\ net[conn].cli # "open"
    /\ \E fails \in BOOLEAN :
          out' = Append(out, IF fails THEN Event("ack failed", TRUE, <<>>, <<>>)
                                      ELSE Event("ack", FALSE, Dumps(ack[1]), <<>>))
    /\ ack' = <<>>
    /\ rpc' = "scan"
    /\ UNCHANGED <<senderVars, net, lsock, conn, buf, rx, frames, joined, tail, quiet, accepts, budget, opts>>

\* KeyboardInterrupt in serve: both with blocks close their sockets, return
RInterrupt ==
    /\ rpc # "exited"
    /\ net' = DropBacklog(IF conn # 0 THEN ServerClose(net, conn) ELSE net)
    /\ accepts' = Kept(net')
    /\ lsock' = FALSE
    /\ conn' = 0
    /\ ack' = <<>>
    /\ rpc' = "exited"
    /\ buf' = <<>>
    /\ out' = <<>>
    /\ rx' = <<>>
    /\ frames' = <<>>
    /\ joined' = FALSE
    /\ tail' = buf
    /\ quiet' = 0
    /\ UNCHANGED <<senderVars, budget, opts>>

Receiver ==
    \/ Bind \/ BindFails \/ Pause \/ Accept
    \/ Recv \/ RecvEof \/ RecvFails
    \/ ScanNone \/ ScanLine \/ SendAck \/ SendAckLost

(***************************************************************************)
(* Clients other than the sender: anything that connects to the port and   *)
(* writes lines.                                                           *)
(***************************************************************************)
\* JSON objects a client may dump: a well-formed input, an input whose
\* leaves are missing or ill-typed, an input whose axes is a number, and a
\* heartbeat
ClientObjects == {
    InputMsg(PyInt(7), CHOOSE s \in Samples : Get(s.axes, "lx", None) = Num(500)),
    Dict(<< <<"type", Str("input")>>, <<"seq", PyInt(8)>>,
            <<"axes", Dict(<< <<"lx", Str("0.5")>>, <<"ly", Str("abc")>>,
                              <<"rx", None>>, <<"ry", List(1)>> >>)>>,
            <<"dpad", None>>, <<"buttons", List(2)>> >>),
    Dict(<< <<"type", Str("input")>>, <<"seq", PyInt(9)>>, <<"axes", PyInt(5)>> >>),
    heartbeat_message(PyInt(3)) }

\* the lines a client may write, without their newline: an e-acute, " ",
\* " 1", "{}", and the dumped objects
ClientLines ==
    { <<Byte(195), Byte(169)>>, <<Byte(32)>>, <<Byte(32), Byte(49)>>,
      <<Byte(123), Byte(125)>> }
    \cup {Dumps(o) : o \in ClientObjects}

\* the lines a client may leave unterminated: an e-acute, "{}", a heartbeat
CutLines ==
    { <<Byte(195), Byte(169)>>, <<Byte(123), Byte(125)>>, Dumps(heartbeat_message(PyInt(3))) }

ClientConnect ==
    /\ CanConnect
    /\ net' = Connected(Lowest(Unused))
    /\ UNCHANGED <<senderVars, recvVars, budget, opts>>

\* The receiver can still read what the client writes on connection id: it
\* is served, or it is the next to be accepted.  (A connection queued behind
\* another is dropped with the queue when the listening socket is closed,
\* and nothing written to it is ever read.)
Readable(id) ==
    \/ net[id].st = "served"
    \/ net[id].st = "backlog" /\ conn = 0 /\ id = Lowest(Backlogged)

\* sendall(line + b"\n")
ClientWrite(id) ==
    /\ net[id].cli = "open"
    /\ Readable(id)
    /\ budget > 0
    /\ \E line \in ClientLines :
          /\ Len(net[id].c2s) + Len(line) + 1 <= ChanCap
          /\ net' = [net EXCEPT ![id].c2s = @ \o line \o <<NL>>]
    /\ budget' = budget - 1
    /\ UNCHANGED <<senderVars, recvVars, opts>>

\* the client stops before the newline of a line: the line is written
\* without it, then the socket is closed
ClientCutOff(id) ==
    /\ net[id].cli = "open"
    /\ Readable(id)
    /\ budget > 0
    /\ \E line \in CutLines :
          /\ Len(net[id].c2s) + Len(line) <= ChanCap
          /\ net' = [net EXCEPT ![id] = ClientEnd([@ EXCEPT !.c2s = @ \o line])]
    /\ budget' = budget - 1
    /\ UNCHANGED <<senderVars, recvVars, opts>>

\* the client reads the acks queued for it
ClientRead(id) ==
    /\ net[id].cli = "open"
    /\ net[id].st = "served"
    /\ net[id].s2c # <<>>
    /\ net' = [net EXCEPT ![id].s2c = <<>>]
    /\ UNCHANGED <<senderVars, recvVars, budget, opts>>

\* close(); the FIN comes after the data, so the receiver can notice it only
\* once all that was written is read: it is taken at that point
ClientClose(id) ==
    /\ net[id].cli = "open"
    /\ Readable(id)
    /\ net[id].c2s = <<>>
    /\ net' = [net EXCEPT ![id] = ClientEnd(@)]
    /\ UNCHANGED <<senderVars, recvVars, budget, opts>>

\* three heartbeat intervals pass while the receiver is blocked in recv and
\* nothing is on its way
HeartbeatTicks == (HEARTBEAT_MS * TicksPerSec) \div 1000
StaleTicks == 3 * HeartbeatTicks

Wait ==
    /\ rpc = "recv"
    /\ net[conn].c2s = <<>>
    /\ net[conn].cli = "open"
    /\ quiet <= StaleTicks
    /\ quiet' = quiet + StaleTicks
    /\ UNCHANGED <<senderVars, net, lsock, rpc, conn, buf, out, rx, frames, joined, tail, accepts, budget, ack, opts>>

(***************************************************************************)
(* The sender: ControlClient and run().  spc is "start" (before the loop), *)
(* "poll" (top of the loop body), "sleep" (in time.sleep) or "done".       *)
(***************************************************************************)
\* (self.seq + 1) & 0xFFFFFFFF, on the two halves of seq
next_seq_unmasked(s) == IF s[2] + 1 < HALF THEN <<s[1], s[2] + 1>> ELSE <<s[1] + 1, 0>>

next_seq(s) ==
    IF s[2] + 1 < HALF THEN <<s[1], s[2] + 1>> ELSE <<(s[1] + 1) % HALF, 0>>

\* the connections after the client closes its socket of connection id
CloseClient(n, id) ==
    IF n[id].st = "gone" THEN [n EXCEPT ![id] = FreshConn]
    ELSE [n EXCEPT ![id] = ClientEnd(@)]

\* sendall(line) on connection c: whether it returns (ok) or raises OSError,
\* and how many units reached the connection.  A write to a connection the
\* receiver has closed is taken by the kernel or fails; a write that finds
\* no room blocks until the 2 s timeout and may have written a part.
SendOutcomes(c, line) ==
    IF c.st = "gone"
        THEN {[ok |-> b, wrote |-> 0] : b \in BOOLEAN}
    ELSE IF Len(c.c2s) + Len(line) <= ChanCap
        THEN {[ok |-> TRUE, wrote |-> Len(line)]}
    ELSE {[ok |-> FALSE, wrote |-> k] : k \in 0 .. (ChanCap - Len(c.c2s))}

\* self.sock after send_json_line left sock untouched
SockKept(r) == sock

\* self.sock after send_json_line: close() sets it to None when sendall raised
SockAfter(r) == IF r.ok THEN sock ELSE 0

\* the connections after send_json_line(obj) had outcome r
NetAfter(obj, r) ==
    LET wrote == [net EXCEPT ![sock].c2s = @ \o SubSeq(EncodeLine(obj), 1, r.wrote)]
    IN  IF r.ok THEN wrote ELSE CloseClient(wrote, sock)

\* control.send_json_line(obj) at clock value now, with its record in sent
Send(obj, now) ==
    \E r \in SendOutcomes(net[sock], EncodeLine(obj)) :
        /\ net' = NetAfter(obj, r)
        /\ accepts' = Kept(net')
        /\ sock' = SockAfter(r)
        /\ sent' = Append(sent, [msg |-> obj, at |-> now, idle |-> now - last_any,
                                 on |-> sock, ok |-> r.ok])

\* the delays run() spends before its loop: none, or a heartbeat interval
StartDelays == {0, (HEARTBEAT_MS * TicksPerSec) \div 1000}

\* run() up to its loop; control.connect() succeeds
StartConnected ==
    /\ spc = "start"
    /\ opts.enable_control
    /\ CanConnect
    /\ sock' = Lowest(Unused)
    /\ net' = Connected(Lowest(Unused))
    /\ \E e \in StartDelays : clock' = clock + e
    /\ spc' = "poll"
    /\ UNCHANGED <<seq, last_send, last_any, sent, recvVars, budget, opts>>

\* run() up to its loop; control is disabled, or connect() raises OSError
StartAlone ==
    /\ spc = "start"
    /\ ~(opts.enable_control /\ CanConnect)
    /\ \E e \in StartDelays : clock' = clock + e
    /\ spc' = "poll"
    /\ UNCHANGED <<sock, seq, last_send, last_any, sent, net, recvVars, budget, opts>>



\* one round of the loop whose input branch leaves last_any alone
PollForgetsLastAny ==
    /\ spc = "poll"
    /\ LET now == clock
           live == opts.enable_control /\ sock # 0
       IN  IF live /\ (now - last_send) * POLL_HZ >= TicksPerSec
               THEN /\ Len(sent) < MaxSends
                    /\ seq' = next_seq(seq)
                    /\ \E s \in Samples : Send(InputMsg(U32(seq'), s), now)
                    /\ last_send' = now
                    /\ UNCHANGED last_any
           ELSE IF live /\ (now - last_any) * 1000 >= HEARTBEAT_MS * TicksPerSec
               THEN /\ Len(sent) < MaxSends
                    /\ seq' = next_seq(seq)
                    /\ Send(heartbeat_message(U32(seq')), now)
                    /\ last_any' = now
                    /\ UNCHANGED last_send
           ELSE UNCHANGED <<sock, seq, last_send, last_any, sent, net, accepts>>
    /\ spc' = "sleep"
    /\ UNCHANGED <<clock, lsock, rpc, conn, buf, out, rx, frames, joined, tail, quiet, budget, ack, opts>>


\* one round of the loop that takes a seq whether or not it sends
PollCountsEveryRound ==
    /\ spc = "poll"
    /\ LET now == clock
           live == opts.enable_control /\ sock # 0
       IN  IF live /\ (now - last_send) * POLL_HZ >= TicksPerSec
               THEN /\ Len(sent) < MaxSends
                    /\ seq' = next_seq(seq)
                    /\ \E s \in Samples : Send(InputMsg(U32(seq'), s), now)
                    /\ last_send' = now
                    /\ last_any' = now
           ELSE /\ seq' = next_seq(seq)
                /\ UNCHANGED <<sock, last_send, last_any, sent, net, accepts>>
    /\ spc' = "sleep"
    /\ UNCHANGED <<clock, lsock, rpc, conn, buf, out, rx, frames, joined, tail, quiet, budget, ack, opts>>

\* one round of the loop that sends its sample without the rate test
PollUngated ==
    /\ spc = "poll"
    /\ LET now == clock
           live == opts.enable_control /\ sock # 0
       IN  IF live
               THEN /\ Len(sent) < MaxSends
                    /\ seq' = next_seq(seq)
                    /\ \E s \in Samples : Send(InputMsg(U32(seq'), s), now)
                    /\ last_send' = now
                    /\ last_any' = now
           ELSE UNCHANGED <<sock, seq, last_send, last_any, sent, net, accepts>>
    /\ spc' = "sleep"
    /\ UNCHANGED <<clock, lsock, rpc, conn, buf, out, rx, frames, joined, tail, quiet, budget, ack, opts>>

\* one round of the loop with the heartbeat test first and its interval
\* taken in ticks instead of milliseconds
PollHeartbeatEager ==
    /\ spc = "poll"
    /\ LET now == clock
           live == opts.enable_control /\ sock # 0
       IN  IF live /\ (now - last_any) * 1000 >= HEARTBEAT_MS
               THEN /\ Len(sent) < MaxSends
                    /\ seq' = next_seq(seq)
                    /\ Send(heartbeat_message(U32(seq')), now)
                    /\ last_any' = now
                    /\ UNCHANGED last_send
           ELSE IF live /\ (now - last_send) * POLL_HZ >= TicksPerSec
               THEN /\ Len(sent) < MaxSends
                    /\ seq' = next_seq(seq)
                    /\ \E s \in Samples : Send(InputMsg(U32(seq'), s), now)
                    /\ last_send' = now
                    /\ last_any' = now
           ELSE UNCHANGED <<sock, seq, last_send, last_any, sent, net, accepts>>
    /\ spc' = "sleep"
    /\ UNCHANGED <<clock, lsock, rpc, conn, buf, out, rx, frames, joined, tail, quiet, budget, ack, opts>>

\* one round of the loop body, up to time.sleep
Poll ==
    /\ spc = "poll"
    /\ LET now == clock
           live == opts.enable_control /\ sock # 0
       IN  IF live /\ (now - last_send) * POLL_HZ >= TicksPerSec
               THEN /\ Len(sent) < MaxSends
                    /\ seq' = next_seq(seq)
                    /\ \E s \in Samples : Send(InputMsg(U32(seq'), s), now)
                    /\ last_send' = now
                    /\ last_any' = now
           ELSE IF live /\ (now - last_any) * 1000 >= HEARTBEAT_MS * TicksPerSec
               THEN /\ Len(sent) < MaxSends
                    /\ seq' = next_seq(seq)
                    /\ Send(heartbeat_message(U32(seq')), now)
                    /\ last_any' = now
                    /\ UNCHANGED last_send
           ELSE UNCHANGED <<sock, seq, last_send, last_any, sent, net, accepts>>
    /\ spc' = "sleep"
    /\ UNCHANGED <<clock, lsock, rpc, conn, buf, out, rx, frames, joined, tail, quiet, budget, ack, opts>>

\* the time one time.sleep(delay) and the rest of a round can take: the
\* shortest time that is at least delay, or a heartbeat interval
Sleeps == {d \in 1 .. MaxClock : d * POLL_HZ >= TicksPerSec /\ (d - 1) * POLL_HZ < TicksPerSec}
            \cup {(HEARTBEAT_MS * TicksPerSec) \div 1000}

\* time.sleep(delay).  Without a socket the loop reads the clock to no
\* effect (both tests of the loop ask for control.sock first): the clock of
\* a sender without a socket is counted up to MaxClock and no further.
Sleep ==
    /\ spc = "sleep"
    /\ \E d \in Sleeps :
          \/ clock + d <= MaxClock /\ clock' = clock + d
          \/ clock + d > MaxClock /\ sock = 0 /\ clock' = MaxClock
    /\ spc' = "poll"
    /\ UNCHANGED <<sock, seq, last_send, last_any, sent, net, recvVars, budget, opts>>

\* KeyboardInterrupt in run() with a finally that leaves the socket open
SInterruptLeavesSocket ==
    /\ spc # "done"
    /\ spc' = "done"
    /\ UNCHANGED <<clock, sock, seq, last_send, last_any, sent, net, recvVars, budget, opts>>

\* KeyboardInterrupt in run(): finally, control.close()
SInterrupt ==
    /\ spc # "done"
    /\ net' = IF sock # 0 THEN CloseClient(net, sock) ELSE net
    /\ accepts' = Kept(net')
    /\ sock' = 0
    /\ spc' = "done"
    /\ UNCHANGED <<clock, seq, last_send, last_any, sent, lsock, rpc, conn, buf, out, rx,
                   frames, joined, tail, quiet, budget, ack, opts>>

Sender == StartConnected \/ StartAlone \/ Poll \/ Sleep

(***************************************************************************)
(* The receiver with arbitrary clients.                                    *)
(***************************************************************************)
StartClocks == {0, 1}

Init ==
    /\ clock \in StartClocks
    /\ spc = "start"
    /\ sock = 0
    /\ seq = <<0, 0>>
    /\ last_send = 0
    /\ last_any = clock
    /\ sent = <<>>
    /\ net = [i \in Ids |-> FreshConn]
    /\ lsock = FALSE
    /\ rpc = "bind"
    /\ conn = 0
    /\ buf = <<>>
    /\ out = <<>>
    /\ rx = <<>>
    /\ frames = <<>>
    /\ joined = FALSE
    /\ tail = <<>>
    /\ quiet = 0
    /\ accepts = [i \in Ids |-> 0]
    /\ budget = MaxLines
    /\ ack = <<>>
    /\ opts \in [enable_control : BOOLEAN, show_heartbeats : BOOLEAN, send_ack : BOOLEAN]

InitRecv ==
    /\ Init
    /\ clock = 0
    /\ ~opts.enable_control
    /\ ~opts.show_heartbeats

NextRecv ==
    \/ Receiver
    \/ RInterrupt
    \/ Wait
    \/ ClientConnect
    \/ \E id \in Ids : ClientWrite(id)
    \/ \E id \in Ids : ClientCutOff(id)
    \/ \E id \in Ids : ClientRead(id)
    \/ \E id \in Ids : ClientClose(id)

SpecRecv == InitRecv /\ [][NextRecv]_vars

(***************************************************************************)
(* The sender and the receiver.                                            *)
(***************************************************************************)
Next ==
    \/ Sender
    \/ SInterrupt
    \/ Receiver
    \/ RInterrupt

InitSys == Init /\ ~opts.show_heartbeats

Spec == InitSys /\ [][Next]_vars

\* the steps of serve() around handle_client
Serve == Bind \/ BindFails \/ Pause \/ Accept

\* the same, where the sender's loop keeps running and the receiver keeps
\* binding and accepting
SpecLive == InitSys /\ [][Next]_vars /\ WF_vars(Sender) /\ WF_vars(Serve)

(***************************************************************************)
(* A session that has lasted 2^32 - 2 messages: the sender sleeps after    *)
(* the send of seq 2^32 - 2 (the clock and the histories are counted from  *)
(* that send), the receiver has handled it and waits in recv.              *)
(***************************************************************************)
InitWrap ==
    /\ clock = 0
    /\ spc = "sleep"
    /\ sock = 1
    /\ seq = <<HALF - 1, HALF - 2>>
    /\ last_send = 0
    /\ last_any = 0
    /\ sent = <<>>
    /\ net = [i \in Ids |-> IF i = 1 THEN [FreshConn EXCEPT !.st = "served", !.cli = "open"]
                                     ELSE FreshConn]
    /\ lsock = TRUE
    /\ rpc = "recv"
    /\ conn = 1
    /\ buf = <<>>
    /\ out = <<>>
    /\ rx = <<>>
    /\ frames = <<>>
    /\ joined = FALSE
    /\ tail = <<>>
    /\ quiet = 0
    /\ accepts = [i \in Ids |-> IF i = 1 THEN 1 ELSE 0]
    /\ budget = MaxLines
    /\ ack = <<>>
    /\ opts \in {o \in [enable_control : BOOLEAN, show_heartbeats : BOOLEAN, send_ack : BOOLEAN] :
                    o.enable_control /\ ~o.show_heartbeats}

NextWrap ==
    \/ Poll \/ Sleep \/ SInterrupt
    \/ Recv \/ RecvEof \/ RecvFails
    \/ ScanNone \/ ScanLine \/ SendAck \/ SendAckLost
    \/ RInterrupt

SpecWrap == InitWrap /\ [][NextWrap]_vars

(***************************************************************************)
(* The receiver's loop and the lines it is handed.                         *)
(***************************************************************************)
\* recv_lines is about to yield a line to the loop of handle_client
Yielding == rpc = "scan" /\ Find(buf) # 0

\* the line it is about to yield
NextLine == DecodeLine(TakeLine(buf, Find(buf)))

\* text that is not JSON, JSON that is not an object, or an object whose
\* type is missing or unrecognized
NotAMessage(line) ==
    LET r == JsonLoads(line)
    IN  \/ ~r.ok
        \/ ~IsDict(r.val)
        \/ Get(r.val, "type", None) \notin {Str("input"), Str("heartbeat")}

\* the text of a JSON object of type input
IsInput(line) ==
    LET r == JsonLoads(line)
    IN  r.ok /\ IsDict(r.val) /\ Get(r.val, "type", None) = Str("input")

\* the step is not the receiver being interrupted from the keyboard
NotInterrupted == rpc' # "exited"

\* C1: no single received line that is not a message (not JSON, JSON that
\* is not an object, an object of missing or unrecognized type) ends the
\* loop of handle_client or closes the connection: after the line is
\* handled, the same connection is still being served.
C1_NoLineEndsTheLoop ==
    [][(Yielding /\ NotAMessage(NextLine) /\ NotInterrupted) => conn' = conn]_vars

\* C4: while a connection is served, the time since its last frame never
\* exceeds the idle timeout (three heartbeat intervals): the receiver has
\* closed a link that stayed silent that long.
C4_StaleLinkIsClosed == conn # 0 => quiet <= StaleTicks

\* C8: every JSON object of type input, whatever the presence and types of
\* its axes, dpad, buttons and leaves, is processed without raising: after
\* the line is handled, the same connection is still being served.
C8_InputNeverRaises ==
    [][(Yielding /\ IsInput(NextLine) /\ NotInterrupted) => conn' = conn]_vars

(***************************************************************************)
(* recv_lines on a whole stream.                                           *)
(***************************************************************************)
\* the lines the inner loop of recv_lines yields from buffer b
RECURSIVE Yielded(_)
Yielded(b) ==
    IF Find(b) = 0 THEN <<>>
    ELSE <<DecodeLine(TakeLine(b, Find(b)))>> \o Yielded(DropLine(b, Find(b)))

\* what the inner loop leaves in buffer b
RECURSIVE Retained(_)
Retained(b) == IF Find(b) = 0 THEN b ELSE Retained(DropLine(b, Find(b)))

\* C3: whatever the chunks recv returned, the frames yielded so far and the
\* ones still to be cut from buf are the frames of the stream fed in one
\* chunk, and buf retains the bytes after the last terminator.
C3_ChunkingIsInvisible ==
    conn # 0 =>
        /\ frames \o Yielded(buf) = Yielded(rx)
        /\ Retained(buf) = Retained(rx)

\* one dumped object arrived in more than one chunk and gave one frame
C3_SplitLineOneFrame ==
    /\ conn # 0
    /\ joined
    /\ buf = <<>>
    /\ \E o \in ClientObjects :
          /\ rx = EncodeLine(o)
          /\ frames = <<DecodeLine(Dumps(o))>>

(***************************************************************************)
(* Streams that start with a line that is not JSON.                        *)
(***************************************************************************)
\* msg has the shape of what the sender dumps: a heartbeat, or an input
\* whose axes, buttons and dpad are dicts
SenderShaped(msg) ==
    /\ IsDict(msg)
    /\ \/ Get(msg, "type", None) = Str("heartbeat")
       \/ /\ Get(msg, "type", None) = Str("input")
          /\ \A k \in {"axes", "buttons", "dpad"} : IsDict(Get(msg, k, None))

\* the text of a valid message
ValidLine(line) == JsonLoads(line).ok /\ SenderShaped(JsonLoads(line).val)

\* lines fs: one line that is not valid JSON, then valid message lines only
BadThenValid(fs) ==
    /\ fs # <<>>
    /\ ~JsonLoads(fs[1]).ok
    /\ \A i \in 2 .. Len(fs) : ValidLine(fs[i])

IsDelivery(e) == e.ev \in {"input", "heartbeat"}
IsBadJson(e) == e.ev = "bad json"

\* the lines of the messages the loop dispatched, in order
Delivered(o) == [i \in 1 .. Len(SelectSeq(o, IsDelivery)) |-> SelectSeq(o, IsDelivery)[i].line]

\* the number of bad-json warnings the loop printed
Warnings(o) == Len(SelectSeq(o, IsBadJson))

Served == {i \in Ids : net[i].st = "served"}

\* C10: at most one connection is served at any time, and it is the one
\* handle_client holds; no connect is accepted twice; accept is called only
\* when no connection is served; and when a served connection ends, the
\* receiver goes back to binding and accepting (at once or after its
\* pause) unless it is interrupted from the keyboard.
C10_OneConnectionAtATime ==
    /\ [](/\ Cardinality(Served) <= 1
          /\ Served = (IF conn = 0 THEN {} ELSE {conn})
          /\ \A i \in Ids : accepts[i] <= 1)
    /\ [][(\E i \in Ids : accepts'[i] > accepts[i]) => conn = 0 /\ Served = {}]_vars
    /\ [][(conn # 0 /\ conn' = 0) => (rpc' \in {"bind", "pause"} \/ RInterrupt)]_vars

\* a connection is being served, a line of it is about to be handled, and
\* another connect waits in the queue, not accepted
C10_ServingWhileOneWaits ==
    /\ conn # 0
    /\ Backlogged # {}
    /\ rpc = "scan"

(***************************************************************************)
(* The sender's sends.                                                     *)
(***************************************************************************)
IsHeartbeat(m) == Get(m.msg, "type", None) = Str("heartbeat")

\* t ticks are at least one heartbeat interval
AtLeastHeartbeat(t) == t * 1000 >= HEARTBEAT_MS * TicksPerSec

\* the seq of a sent message, as its two halves
SeqOf(m) == Get(m.msg, "seq", None).v

\* n + 1 modulo 2^32, on the two halves of n
Succ32(n) ==
    IF n = <<HALF - 1, HALF - 1>> THEN <<0, 0>>
    ELSE IF n[2] = HALF - 1 THEN <<n[1] + 1, 0>>
    ELSE <<n[1], n[2] + 1>>

\* C2: a sender that runs with control enabled and holds no connection
\* (its connect failed or a send failure closed it) while the receiver is
\* listening comes to hold an open connection, unless it is stopped or the
\* receiver stops listening first.
C2_SenderReconnects ==
    (spc \in {"poll", "sleep"} /\ opts.enable_control /\ sock = 0 /\ lsock)
        ~> (sock # 0 \/ spc = "done" \/ ~lsock)

\* C5: every message the connected sender emits after at least one
\* heartbeat interval without a send is a heartbeat, and two heartbeats
\* are never less than one interval apart.
C5_HeartbeatWhenIdle ==
    /\ \A i \in 1 .. Len(sent) : AtLeastHeartbeat(sent[i].idle) => IsHeartbeat(sent[i])
    /\ \A i, j \in 1 .. Len(sent) :
          i < j /\ IsHeartbeat(sent[i]) /\ IsHeartbeat(sent[j])
              => AtLeastHeartbeat(sent[j].at - sent[i].at)

\* C6: on one connection, the seq of each message handed to the socket is
\* the seq of the one before plus 1 modulo 2^32, and is a 32-bit value.
C6_SeqStepsByOne ==
    /\ \A i \in 1 .. Len(sent) :
          SeqOf(sent[i])[1] \in 0 .. HALF - 1 /\ SeqOf(sent[i])[2] \in 0 .. HALF - 1
    /\ \A i \in 1 .. Len(sent) - 1 :
          sent[i + 1].on = sent[i].on => SeqOf(sent[i + 1]) = Succ32(SeqOf(sent[i]))

\* seq 2^32 - 1 was written, and 0 after it
C6_Wrapped ==
    \E i \in 1 .. Len(sent) - 1 :
        /\ SeqOf(sent[i]) = <<HALF - 1, HALF - 1>>
        /\ SeqOf(sent[i + 1]) = <<0, 0>>
        /\ sent[i].ok /\ sent[i + 1].ok

\* C9: the step in which a send fails leaves the sender without a socket
\* and its end of the connection closed; no later message is the one whose
\* write failed, or goes to the connection it failed on; and nothing more
\* is written to a connection whose client end is closed.
C9_FailedSendClosesForGood ==
    /\ [][(Len(sent') > Len(sent) /\ ~sent'[Len(sent')].ok)
            => (sock' = 0 /\ net'[sock].cli # "open")]_vars
    /\ [](\A i, j \in 1 .. Len(sent) :
            i < j /\ ~sent[i].ok => sent[j].msg # sent[i].msg /\ sent[j].on # sent[i].on)
    /\ [][\A id \in Ids :
            net[id].cli \in {"closed", "reset"} => Len(net'[id].c2s) <= Len(net[id].c2s)]_vars

\* the second or a later send failed, and the loop went on without a socket
C9_FailedAndWentOn ==
    /\ sent # <<>>
    /\ ~sent[Len(sent)].ok
    /\ Len(sent) >= 2
    /\ spc = "poll"
    /\ clock > sent[Len(sent)].at
    /\ sock = 0

(***************************************************************************)
(* Acks.                                                                   *)
(***************************************************************************)
\* the seq of the JSON object whose text is line
SeqIn(line) == Get(JsonLoads(line).val, "seq", None)

\* the loop wrote an ack, or tried to and sendall raised
IsAckWrite(e) == e.ev \in {"ack", "ack failed"}

\* every ack follows the input it answers, with the seq of that input, and
\* none is written when acks are disabled
AcksAnswerInputs ==
    \A i \in 1 .. Len(out) :
        IsAckWrite(out[i]) =>
            /\ opts.send_ack
            /\ i > 1
            /\ out[i - 1].ev = "input"
            /\ out[i].ev = "ack" => SeqIn(out[i].line) = SeqIn(out[i - 1].line)

\* C11 as stated: with acks enabled every input the receiver has processed
\* is followed by one written ack (or the receiver is in its write), every
\* ack carries the seq of the input before it, nothing else is acked, and
\* no ack is written with acks disabled.
C11_OneAckPerInput ==
    /\ AcksAnswerInputs
    /\ \A i \in 1 .. Len(out) :
          out[i].ev = "input" /\ opts.send_ack =>
              IF i = Len(out) THEN rpc = "ack" ELSE out[i + 1].ev = "ack"

\* C11, amended: the same, where the one write of the ack may fail (the
\* client has closed its end), which is logged and leaves the input unacked.
C11_OneAckWritePerInput ==
    /\ AcksAnswerInputs
    /\ \A i \in 1 .. Len(out) :
          out[i].ev = "input" /\ opts.send_ack =>
              IF i = Len(out) THEN rpc = "ack" ELSE IsAckWrite(out[i + 1])

\* two inputs of different seq were acked, and a line that is no input was
\* handled without an ack
C11_TwoAcked ==
    /\ conn # 0
    /\ \E i, j \in 1 .. Len(out) :
          /\ i < j
          /\ out[i].ev = "ack" /\ out[j].ev = "ack"
          /\ SeqIn(out[i].line) # SeqIn(out[j].line)
    /\ \E k \in 1 .. Len(out) : out[k].ev \in {"heartbeat", "unknown", "bad json"}

(***************************************************************************)
(* What was written on a connection and what the receiver dispatched.      *)
(***************************************************************************)
\* the newline-terminated lines of byte stream b, in order, as written
RECURSIVE Lines(_)
Lines(b) ==
    IF \A i \in 1 .. Len(b) : b[i] # NL THEN <<>>
    ELSE LET i == CHOOSE i \in 1 .. Len(b) : b[i] = NL /\ \A j \in 1 .. i - 1 : b[j] # NL
         IN  <<SubSeq(b, 1, i - 1)>> \o Lines(SubSeq(b, i + 1, Len(b)))

\* line is the dumped text of an input or heartbeat message
IsMessageText(line) ==
    /\ IsDumped(line)
    /\ IsDict(line[1].o)
    /\ Get(line[1].o, "type", None) \in {Str("input"), Str("heartbeat")}

\* the messages among the lines written in stream b
Messages(b) == SelectSeq(Lines(b), IsMessageText)

IsPrefix(p, q) == Len(p) <= Len(q) /\ p = SubSeq(q, 1, Len(p))

\* the bytes received that recv_lines has cut into lines
Consumed == SubSeq(rx, 1, Len(rx) - Len(buf))

\* C12: the messages dispatched on the served connection are, in order and
\* one for one, the messages among the lines received and cut so far (none
\* merged, lost or repeated), whatever the chunks were; they are a prefix,
\* hence a subsequence in the same order, of the messages the peer wrote.
C12_DispatchedInOrder ==
    conn # 0 =>
        /\ Len(buf) <= Len(rx)
        /\ Delivered(out) = Messages(Consumed)
        /\ IsPrefix(Delivered(out), Messages(rx \o net[conn].c2s))

\* an input and a heartbeat were dispatched in the order written, after a
\* chunk ended inside a line, while a third line is on its way
C12_TwoDispatched ==
    /\ conn # 0
    /\ joined
    /\ Len(Delivered(out)) = 2
    /\ IsInput(Delivered(out)[1])
    /\ ~IsInput(Delivered(out)[2])
    /\ net[conn].c2s # <<>>

(***************************************************************************)
(* Bytes without a newline.                                                *)
(***************************************************************************)
\* the lines of stream b as recv_lines hands them on: decoded and stripped
Decoded(ls) == [i \in 1 .. Len(ls) |-> DecodeLine(ls[i])]

\* C13: every frame yielded on the served connection is a line that was
\* received with its newline, so bytes not followed by a newline are never
\* yielded, parsed or dispatched; and when the connection ends they are
\* still in the buffer, which is dropped.
C13_UndelimitedNeverYielded ==
    /\ [](conn # 0 =>
            /\ frames = Decoded(Lines(Consumed))
            /\ Len(out) <= Len(frames) + Cardinality({i \in 1 .. Len(out) : IsAckWrite(out[i])}))
    /\ [][(conn # 0 /\ conn' = 0) => tail' = buf]_vars
    /\ [][(rpc = "recv" /\ conn' = conn) => Len(frames') = Len(frames)]_vars

\* the peer closed, recv returned b"" and the loop ended normally while
\* buf held bytes without a newline
C13_EndedWithBytesLeft ==
    /\ rpc = "bind"
    /\ conn = 0
    /\ tail # <<>>
    /\ Find(tail) = 0

(***************************************************************************)
(* Heartbeats and inputs.                                                  *)
(***************************************************************************)
\* the message the step hands to the socket, when it hands one
Emits == Len(sent') = Len(sent) + 1

\* C14: whenever the sender emits a heartbeat, every message it sent before
\* on that connection was sent at least one heartbeat interval earlier, and
\* the heartbeat is emitted only after an idle time of at least one
\* interval; so no heartbeat falls among inputs that follow each other
\* faster than the interval.
C14_NoHeartbeatAmongInputs ==
    /\ [](\A i, j \in 1 .. Len(sent) :
             j < i /\ IsHeartbeat(sent[i]) /\ sent[j].on = sent[i].on
                 => AtLeastHeartbeat(sent[i].at - sent[j].at))
    /\ [][Emits /\ IsHeartbeat(sent'[Len(sent')]) => AtLeastHeartbeat(clock - last_any)]_vars

\* two inputs were sent on one connection less than a heartbeat interval
\* apart, and no heartbeat was sent
C14_InputsInARow ==
    /\ \E i \in 1 .. Len(sent) - 1 :
          /\ ~IsHeartbeat(sent[i]) /\ ~IsHeartbeat(sent[i + 1])
          /\ sent[i].on = sent[i + 1].on
          /\ ~AtLeastHeartbeat(sent[i + 1].at - sent[i].at)
    /\ \A i \in 1 .. Len(sent) : ~IsHeartbeat(sent[i])

(***************************************************************************)
(* Shutdown.                                                               *)
(***************************************************************************)
\* the sender's loop has ended and its socket is closed
SenderDown ==
    /\ sock = 0
    /\ \A i \in Ids : net[i].cli # "open"

\* serve() has returned and its listening socket and connection are closed
ReceiverDown ==
    /\ ~lsock
    /\ conn = 0
    /\ Served = {}
    /\ Backlogged = {}

\* C15: in every state of the sender's loop and of the receiver's loop the
\* KeyboardInterrupt can be taken; the step that takes it ends the loop, the
\* loop stays ended, and once it has ended the sockets it owned are closed.
C15_InterruptEndsTheLoop ==
    /\ [](spc # "done" => ENABLED SInterrupt)
    /\ [](rpc # "exited" => ENABLED RInterrupt)
    /\ [][SInterrupt => spc' = "done"]_vars
    /\ [][RInterrupt => rpc' = "exited"]_vars
    /\ [](spc = "done" => SenderDown)
    /\ [](rpc = "exited" => ReceiverDown)
    /\ [][spc = "done" => spc' = "done"]_vars
    /\ [][rpc = "exited" => rpc' = "exited"]_vars

\* both loops were interrupted, the sender after it had sent on its
\* connection
C15_BothInterrupted ==
    /\ spc = "done"
    /\ rpc = "exited"
    /\ sent # <<>>
    /\ sent[Len(sent)].ok

(***************************************************************************)
(* Acks on the way back.                                                   *)
(***************************************************************************)
\* conn.sendall(ack line) finds no room toward a client whose end is open
AckBlocked ==
    /\ rpc = "ack"
    /\ conn # 0
    /\ net[conn].cli = "open"
    /\ Len(net[conn].s2c) + Len(EncodeLine(ack[1])) > ChanCap

\* C16: the sender reads the acks written to its connection, so that
\* while it is connected and in its loop the receiver is never blocked in
\* an ack write for want of room in the channel.
C16_AckWriteNeverBlocks ==
    (spc \in {"poll", "sleep"} /\ sock # 0 /\ conn = sock) => ~AckBlocked

(***************************************************************************)
(* The rate of the inputs.                                                 *)
(***************************************************************************)
\* t ticks are at least 1/POLL_HZ seconds
AtLeastDelay(t) == t * POLL_HZ >= TicksPerSec

\* C17: a step of the loop emits an input only when control is enabled,
\* the socket is open and at least 1/POLL_HZ has passed on the loop's clock
\* since last_send, and it sets last_send and last_any to that clock value;
\* so any two consecutive inputs are at least 1/POLL_HZ apart.
C17_InputRateBounded ==
    /\ [][Emits /\ ~IsHeartbeat(sent'[Len(sent')])
             => /\ opts.enable_control
                /\ sock # 0
                /\ AtLeastDelay(clock - last_send)
                /\ sent'[Len(sent')].at = clock
                /\ last_send' = clock
                /\ last_any' = clock]_vars
    /\ [](\A i \in 1 .. Len(sent) - 1 :
             (~IsHeartbeat(sent[i]) /\ ~IsHeartbeat(sent[i + 1]))
                 => AtLeastDelay(sent[i + 1].at - sent[i].at))

\* the sender has sent three inputs, the last two exactly 1/POLL_HZ apart,
\* and both times are those of the last send
C17_ThreeInputsAtFullRate ==
    /\ Len(sent) = 3
    /\ sent[3].at - sent[2].at = TicksPerSec \div POLL_HZ
    /\ last_send = sent[3].at
    /\ last_any = sent[3].at

(***************************************************************************)
(* Exceptions in serve.                                                    *)
(***************************************************************************)
\* C18: an exception raised in bind, in recv or while a line is handled
\* takes serve to its pause with the listening socket and the connection
\* closed; the pause can always end and is followed by a new bind, which
\* can be taken; and the receiver ends by no step but the KeyboardInterrupt.
C18_ExceptionsDoNotEndServe ==
    /\ [][BindFails \/ RecvFails => rpc' = "pause"]_vars
    /\ [][(rpc \in {"recv", "scan", "ack"} /\ conn # 0 /\ conn' = 0 /\ ~RecvEof)
             => rpc' \in {"pause", "exited"}]_vars
    /\ [](rpc = "pause" => ReceiverDown)
    /\ [](rpc = "pause" => ENABLED Pause)
    /\ [][rpc = "pause" /\ rpc' # "pause" => Pause \/ RInterrupt]_vars
    /\ [][Pause => rpc' = "bind"]_vars
    /\ [](rpc = "bind" => ENABLED Bind)
    /\ [][rpc # "exited" /\ rpc' = "exited" => RInterrupt]_vars

\* serve is in its pause after an exception that ended handle_client with
\* bytes still in its buffer
C18_PausedAfterException ==
    /\ rpc = "pause"
    /\ tail # <<>>
    /\ ~lsock
    /\ conn = 0

(***************************************************************************)
(* last_send and last_any.                                                 *)
(***************************************************************************)
\* the round of the loop that starts in this state finds control enabled,
\* the socket open and the rate test false
GateFails ==
    /\ spc = "poll"
    /\ opts.enable_control
    /\ sock # 0
    /\ ~AtLeastDelay(clock - last_send)

\* C19: last_any is never below last_send; one delay of the loop is shorter
\* than the heartbeat interval; and a round in which the rate test fails on
\* a connected sender has been idle for less than a heartbeat interval and
\* sends nothing.
C19_LastAnyNotBelowLastSend ==
    /\ [](last_any >= last_send)
    /\ [](~AtLeastHeartbeat(TicksPerSec \div POLL_HZ))
    /\ [](GateFails => ~AtLeastHeartbeat(clock - last_any))
    /\ [][GateFails /\ spc' = "sleep"
             => UNCHANGED <<sent, net, sock, seq, last_send, last_any>>]_vars

\* a round of the connected sender found the rate test false and sent
\* nothing
C19_GateFailedNothingSent ==
    /\ spc = "sleep"
    /\ opts.enable_control
    /\ sock # 0
    /\ ~AtLeastDelay(clock - last_send)
    /\ sent = <<>>

(***************************************************************************)
(* What a round of the loop changes.                                       *)
(***************************************************************************)
\* a step of the sender's loop: a round up to its sleep, or the sleep
Round == spc \in {"poll", "sleep"} /\ spc' \in {"poll", "sleep"}

\* the client's side of the connections: what the sender has written
Written == [i \in Ids |-> net[i].c2s]

\* C20: a round of a sender without an open socket writes nothing and
\* leaves seq, last_send and last_any as they are; seq changes in no step
\* but a send attempt on an open socket, where it becomes next_seq(seq),
\* and every such attempt changes it, also one whose write fails.
C20_SeqOnlyBySendAttempts ==
    /\ [][Round /\ sock = 0
             => /\ UNCHANGED <<sent, seq, last_send, last_any, sock>>
                /\ \A i \in Ids : Len(Written'[i]) <= Len(Written[i])]_vars
    /\ [][seq' # seq => Emits /\ sock # 0]_vars
    /\ [][Emits => seq' = next_seq(seq) /\ seq' # seq /\ sock # 0
                   /\ SeqOf(sent'[Len(sent')]) = seq']_vars

\* a write failed and closed the socket, seq has counted that attempt, and
\* the loop has gone on on its clock without a socket
C20_FailedAttemptCounted ==
    /\ sent # <<>>
    /\ ~sent[Len(sent)].ok
    /\ SeqOf(sent[Len(sent)]) = seq
    /\ seq = <<0, Len(sent)>>
    /\ sock = 0
    /\ spc = "poll"
    /\ clock > sent[Len(sent)].at

====
